---- MODULE Spec2Model ----
(***************************************************************************)
(* RondevuConnectionManager (src/src/RondevuConnectionManager.ts).         *)
(*                                                                         *)
(* The source file holds two variants of the class: the bloom-filter       *)
(* variant (lines 59-374: explicit createOffer/answer, BloomFilter dedup)   *)
(* and the pooled-offer variant (lines 544-857: rondevu.offer/discover/     *)
(* peer).  variant selects which class is running; it never changes.       *)
(*                                                                         *)
(* JavaScript runs one synchronous segment at a time: every action below   *)
(* is the code between two awaits (or one event callback), run to its end. *)
(*                                                                         *)
(* Objects that differ only in identity are kept as bags of records: a     *)
(* peer object is its record in peers, and its field tracked says whether  *)
(* it is a member of the Set torrentPeers.get(its infoHash); the variable  *)
(* torrentPeers holds the keys of that Map.  Offers and discovery passes   *)
(* are kept the same way.                                                  *)
(***************************************************************************)
EXTENDS Integers, Sequences, FiniteSets, Bags, TLC

(* ---------------------------------------------------------------- bounds *)

\* options.maxPeersPerTorrent (default 50), scaled down
maxPeersPerTorrent == 2
\* discovery passes started in one run, all topics together
MaxPasses == 2
\* peer objects created in one run, all topics together
MaxPeerObjs == 3
\* inbound connections delivered in one run
MaxConnections == 1

Topics == {"t1"}
\* the infoHashes of the runs with two torrents (Spec2)
Topics2 == {"t1", "t2"}
Self == "self"

\* A remote advertisement: its origin (peerId / username) and, in the
\* bloom-filter variant, whether it carries an answererPeerId.
Ad(id, ans) == [peerId |-> id, answered |-> ans]

\* The advertisement lists the signaling service may return to one query.
Responses ==
  { <<Ad(Self, FALSE), Ad("p3", TRUE)>>,
    <<Ad("p1", FALSE)>>,
    <<Ad("p1", FALSE), Ad("p2", FALSE)>>,
    <<Ad("p1", FALSE), Ad("p2", FALSE), Ad("p3", FALSE)>> }

\* the lists returned in the runs with two torrents
Responses2 ==
  { <<Ad(Self, FALSE), Ad("p3", TRUE)>>,
    <<Ad("p1", FALSE)>> }

NoAd == Ad("none", FALSE)

VARIABLES
  variant,                \* "bloom" | "pooled": which class of the file runs
  mgr,                    \* initialize(): "init" | "ready" | "failed"
  mgrDestroyed,           \* destroy() has been called
  scanQueue,              \* client.torrents.forEach of initialize(), left to visit
  clientTorrents,         \* client.torrents (infoHashes)
  torrentSeen,            \* infoHashes ever added to the client
  torrentReady,           \* torrents whose 'torrent' event has been emitted
  registrations,          \* per torrent: handleTorrentAdded calls so far
  onceDestroyed,          \* per torrent: cleanup closures on torrent.once('destroyed')
  torrentPeers,           \* keys of Map infoHash -> Set of peers
  torrentOffers,          \* keys of Map infoHash -> offer ids (bloom)
  torrentOfferHandles,    \* keys of Map infoHash -> OfferHandle (pooled)
  torrentCleanupHandlers, \* keys of Map infoHash -> cleanup closure
  refreshTimers,          \* keys of Map infoHash -> the interval handle last set
  torrentBloomFilters,    \* Map infoHash -> BloomFilter: [gen, ids] (bloom)
  liveTimers,             \* per torrent: setInterval handles not yet cleared
  passes,                 \* bag of the discoverPeersForTorrent calls in flight
  nPasses,                \* discoverPeersForTorrent calls so far
  peers,                  \* bag of the peer objects with handlers set up
  nPeers,                 \* peer objects set up so far
  offers,                 \* bag of the offers / offer handles published
  attempted,              \* per torrent: identities handed to answer()/peer()
  serviceHonoured,        \* every query result so far respected limit and filter
  skipped,                \* topics for which a pass returned at the cap check
  erred,                  \* bag: <<topic, origin>> of each pass ended by the outer catch
  cleanupRuns,            \* per torrent: runs of its cleanup closure so far
  threw,                  \* an exception has left destroy() or the 'destroyed' emit
  credential,             \* what the Rondevu object holds as credential(s)
  connectionListeners,    \* torrents held by a rondevu.on('connection:opened') listener (pooled)
  connections,            \* bag of the inbound connections delivered to those listeners
  wrapper                 \* the SimplePeerWrapper followed in the wrapper runs (SpecW)

vars == << variant, mgr, mgrDestroyed, scanQueue, clientTorrents, torrentSeen,
           torrentReady, registrations, onceDestroyed, torrentPeers,
           torrentOffers, torrentOfferHandles, torrentCleanupHandlers,
           refreshTimers, torrentBloomFilters, liveTimers, passes, nPasses,
           peers, nPeers, offers, attempted, serviceHonoured, skipped, erred,
           cleanupRuns, threw, credential,
                  connectionListeners, connections, wrapper >>

(* ---------------------------------------------------------------- helpers *)

Has(m, k) == k \in DOMAIN m
MapSet(m, k, v) == [x \in DOMAIN m \cup {k} |-> IF x = k THEN v ELSE m[x]]
MapDelete(m, k) == [x \in DOMAIN m \ {k} |-> m[x]]
EmptyMap == [x \in {} |-> {}]

BagAdd(b, r) == b (+) SetToBag({r})
BagRemove(b, r) == b (-) SetToBag({r})
BagReplace(b, r, r2) == BagAdd(BagRemove(b, r), r2)

\* the members of the Set torrentPeers.get(T)
PeerSet(ps, T) == {r \in BagToSet(ps) : r.topic = T /\ r.tracked}

\* this.torrentPeers.get(infoHash)?.size ?? 0
SizeOf(keys, ps, T) ==
  IF T \in keys
  THEN BagCardinality([r \in PeerSet(ps, T) |-> ps[r]])
  ELSE 0

PeerCount(T) == SizeOf(torrentPeers, peers, T)

\* A getter that answers only while some torrent is tracked.
getCredentialWhileTracking ==
  IF torrentPeers = {} THEN "none" ELSE credential

\* getCredentials() / getCredential(): this.rondevu.getCredentials()
getCredential == credential

\* getStats().activeTorrents: this.client.torrents.length
activeTorrents == Cardinality(clientTorrents)

\* getStats().torrents: Array.from(this.torrentPeers.entries()) mapped to
\* { infoHash, peerCount: peers.size }
getStats == [T \in torrentPeers |-> PeerCount(T)]

(* ------------------------------------------------------------------- Init *)

\* the manager after construction
ManagerInit ==
  /\ variant \in {"bloom", "pooled"}
  /\ mgr = "init"
  /\ mgrDestroyed = FALSE
  /\ scanQueue = {}
  /\ clientTorrents = {}
  /\ torrentSeen = {}
  /\ torrentReady = {}
  /\ registrations = [t \in Topics2 |-> 0]
  /\ onceDestroyed = [t \in Topics2 |-> 0]
  /\ torrentPeers = {}
  /\ torrentOffers = {}
  /\ torrentOfferHandles = {}
  /\ torrentCleanupHandlers = {}
  /\ refreshTimers = {}
  /\ torrentBloomFilters = EmptyMap
  /\ liveTimers = [t \in Topics2 |-> 0]
  /\ passes = EmptyBag
  /\ nPasses = 0
  /\ peers = EmptyBag
  /\ nPeers = 0
  /\ offers = EmptyBag
  /\ attempted = [t \in Topics2 |-> {}]
  /\ serviceHonoured = TRUE
  /\ skipped = {}
  /\ erred = EmptyBag
  /\ cleanupRuns = [t \in Topics2 |-> 0]
  /\ threw = FALSE
  /\ credential = "none"
  /\ connectionListeners = {}
  /\ connections = EmptyBag

\* no wrapper is followed in the runs of the manager
NoWrapper == [ice |-> "none"]

Init ==
  /\ ManagerInit
  /\ wrapper = NoWrapper

(* ------------------------------------------------- the cleanup closure *)

\* The manager state the cleanup closure and destroy() read and write.
\* abort is local to one call: an exception is unwinding the stack.
MState ==
  [ refreshTimers |-> refreshTimers, liveTimers |-> liveTimers,
    torrentPeers |-> torrentPeers, peers |-> peers,
    torrentOffers |-> torrentOffers,
    torrentOfferHandles |-> torrentOfferHandles, offers |-> offers,
    torrentBloomFilters |-> torrentBloomFilters,
    torrentCleanupHandlers |-> torrentCleanupHandlers,
    cleanupRuns |-> cleanupRuns, threw |-> threw, abort |-> FALSE ]

SetMState(s) ==
  /\ refreshTimers' = s.refreshTimers
  /\ liveTimers' = s.liveTimers
  /\ torrentPeers' = s.torrentPeers
  /\ peers' = s.peers
  /\ torrentOffers' = s.torrentOffers
  /\ torrentOfferHandles' = s.torrentOfferHandles
  /\ offers' = s.offers
  /\ torrentBloomFilters' = s.torrentBloomFilters
  /\ torrentCleanupHandlers' = s.torrentCleanupHandlers
  /\ cleanupRuns' = s.cleanupRuns
  /\ threw' = s.threw

\* What goes wrong in one teardown call: close is the peer whose close()
\* throws (NoPeer: none does), cancel says that offers.delete rejects /
\* offerHandle.cancel() throws.
NoPeer == [topic |-> "none", st |-> "none", tracked |-> FALSE, closes |-> 0,
           handed |-> FALSE]
Failure(r, c) == [close |-> r, cancel |-> c]
NoFailure == Failure(NoPeer, FALSE)

\* the failures one teardown call can meet in the current state
Failures ==
  {Failure(r, c) : r \in {x \in BagToSet(peers) : x.tracked} \cup {NoPeer},
                   c \in BOOLEAN}

\* the failures met in the runs with two torrents: none, or the offer
\* cancellation fails
Failures2 == {NoFailure, Failure(NoPeer, TRUE)}

\* peers.forEach((peer) => peer.close()); torrentPeers.delete(infoHash):
\* every member is closed and is a member no longer
ClosedPeer(r) == [r EXCEPT !.st = "closed", !.closes = @ + 1, !.tracked = FALSE]
CloseSet(ps, T) ==
  LET F(r) == IF r.topic = T /\ r.tracked THEN ClosedPeer(r) ELSE r
  IN  BagOfAll(F, ps)

\* the same with close() of the member bad throwing: try/catch logs it, the
\* peer stays as it is and leaves the set with the others
CloseSetBut(ps, T, bad) ==
  IF bad.topic = T /\ bad.tracked /\ BagIn(bad, ps)
  THEN BagReplace(CloseSet(ps, T), ClosedPeer(bad), [bad EXCEPT !.tracked = FALSE])
  ELSE CloseSet(ps, T)

\* the Set of T is dropped (Map.delete, Map.clear, or replaced by new Set())
DropSet(ps, Ts) ==
  LET F(r) == IF r.topic \in Ts THEN [r EXCEPT !.tracked = FALSE] ELSE r
  IN  BagOfAll(F, ps)

\* offers.delete(id) / offerHandle.cancel() on the tracked offers of T, and
\* the entry of T deleted
CancelTracked(os, T) ==
  LET F(o) == IF o.topic = T /\ o.tracked
              THEN [o EXCEPT !.cancels = @ + 1, !.tracked = FALSE] ELSE o
  IN  BagOfAll(F, os)

\* the same with offers.delete rejecting for one offer id: the async
\* callback catches and logs it, that offer stays published
CancelTrackedBut(os, T, fails) ==
  LET o == [topic |-> T, tracked |-> TRUE, cancels |-> 0] IN
  IF fails /\ BagIn(o, os)
  THEN BagReplace(CancelTracked(os, T), [o EXCEPT !.cancels = 1, !.tracked = FALSE],
                  [o EXCEPT !.tracked = FALSE])
  ELSE CancelTracked(os, T)

\* the offer entry of T is dropped without a cancel
DropOffers(os, Ts) ==
  LET F(o) == IF o.topic \in Ts THEN [o EXCEPT !.tracked = FALSE] ELSE o
  IN  BagOfAll(F, os)

\* const timer = refreshTimers.get(infoHash); if (timer) { clearInterval; delete }
CleanupTimer(s, T) ==
  IF T \in s.refreshTimers
  THEN [s EXCEPT !.liveTimers[T] = @ - 1, !.refreshTimers = @ \ {T}]
  ELSE s

\* A cleanup that closes the peers and keeps the entry of the topic.
CleanupPeersKeepsEntry(s, T, bad) ==
  LET F(r) == IF r.topic = T /\ r.tracked
              THEN [r EXCEPT !.st = "closed", !.closes = @ + 1] ELSE r
  IN  IF T \in s.torrentPeers THEN [s EXCEPT !.peers = BagOfAll(F, @)] ELSE s

\* A cleanup that closes the members of every peer set and drops every set.
CleanupPeersOfAll(s, T, bad) ==
  LET F(r) == IF r.tracked THEN ClosedPeer(r) ELSE r
  IN  IF T \in s.torrentPeers
      THEN [s EXCEPT !.peers = BagOfAll(F, @), !.torrentPeers = {}]
      ELSE s

\* const peers = torrentPeers.get(infoHash); if (peers) { forEach try close
\* catch log; delete }
CleanupPeers(s, T, bad) ==
  IF T \in s.torrentPeers
  THEN [s EXCEPT !.peers = CloseSetBut(@, T, bad), !.torrentPeers = @ \ {T}]
  ELSE s

\* const offerIds = torrentOffers.get(infoHash); if (offerIds) { forEach
\* async try delete catch log; delete }
CleanupOfferIds(s, T, fails) ==
  IF T \in s.torrentOffers
  THEN [s EXCEPT !.offers = CancelTrackedBut(@, T, fails), !.torrentOffers = @ \ {T}]
  ELSE s

\* const offerHandle = torrentOfferHandles.get(infoHash); if (offerHandle) {
\* offerHandle.cancel(); delete }: no try/catch, a throw leaves the closure
CleanupOfferHandle(s, T, fails) ==
  IF T \in s.torrentOfferHandles
  THEN IF fails
       THEN [s EXCEPT !.threw = TRUE, !.abort = TRUE]
       ELSE [s EXCEPT !.offers = CancelTracked(@, T), !.torrentOfferHandles = @ \ {T}]
  ELSE s

\* The statements of the cleanup closure, in the order of the source.
BloomSteps == <<"timer", "peers", "offers", "filter", "handler">>
PooledSteps == <<"timer", "offers", "peers", "handler">>
CleanupSteps == IF variant = "bloom" THEN BloomSteps ELSE PooledSteps

\* one statement of the closure, under failure f
CleanupStep(s, T, step, f) ==
  CASE step = "timer" -> CleanupTimer(s, T)
    [] step = "peers" -> CleanupPeers(s, T, f.close)
    [] step = "offers" -> IF variant = "bloom"
                          THEN CleanupOfferIds(s, T, f.cancel)
                          ELSE CleanupOfferHandle(s, T, f.cancel)
    [] step = "filter" -> [s EXCEPT !.torrentBloomFilters = MapDelete(@, T)]
    [] step = "handler" -> [s EXCEPT !.torrentCleanupHandlers = @ \ {T}]

\* the statements run one after the other until one throws
RECURSIVE RunSteps(_, _, _, _)
RunSteps(s, T, steps, f) ==
  IF steps = <<>> \/ s.abort THEN s
  ELSE RunSteps(CleanupStep(s, T, Head(steps), f), T, Tail(steps), f)

\* The cleanup closure of handleTorrentAdded, under failure f.
CleanupWith(s, T, f) == RunSteps(s, T, CleanupSteps, f)

\* The cleanup closure when nothing it calls fails.
Cleanup(s, T) == CleanupWith(s, T, NoFailure)

\* The statements of the closure that find their entry and act, in order.
RECURSIVE ActingSteps(_, _, _)
ActingSteps(s, T, steps) ==
  IF steps = <<>> THEN <<>>
  ELSE LET step == Head(steps)
           acts == CASE step = "timer" -> T \in s.refreshTimers
                     [] step = "peers" -> T \in s.torrentPeers
                     [] step = "offers" -> T \in s.torrentOffers \cup s.torrentOfferHandles
                     [] step = "filter" -> Has(s.torrentBloomFilters, T)
                     [] step = "handler" -> T \in s.torrentCleanupHandlers
       IN  (IF acts THEN <<step>> ELSE <<>>) \o ActingSteps(s, T, Tail(steps))

\* one call of the closure
RunCleanup(s, T, f) == [CleanupWith(s, T, f) EXCEPT !.cleanupRuns[T] = @ + 1]

\* torrent 'destroyed': the closures registered with once('destroyed') run
\* one after the other; a throw leaves emit()
RECURSIVE RunCleanups(_, _, _, _)
RunCleanups(s, T, n, f) ==
  IF n = 0 \/ s.abort THEN s ELSE RunCleanups(RunCleanup(s, T, f), T, n - 1, f)

\* this.torrentCleanupHandlers.forEach((cleanup) => cleanup())
RECURSIVE RunHandlers(_, _, _)
RunHandlers(s, ts, f) ==
  IF ts = {} \/ s.abort THEN s
  ELSE LET T == CHOOSE t \in ts : TRUE
       IN  RunHandlers(RunCleanup(s, T, f), ts \ {T}, f)

\* destroy(): run the handlers, then clear every map; a throw of a handler
\* leaves destroy() before the maps are cleared
DestroyWith(s, f) ==
  LET s1 == RunHandlers(s, s.torrentCleanupHandlers, f)
  IN  IF s1.abort THEN s1
      ELSE [s1 EXCEPT !.torrentCleanupHandlers = {},
                      !.torrentPeers = {},
                      !.peers = DropSet(@, Topics),
                      !.torrentOffers = {},
                      !.torrentOfferHandles = {},
                      !.offers = DropOffers(@, Topics),
                      !.refreshTimers = {},
                      !.torrentBloomFilters = EmptyMap]

\* destroy() when nothing it calls fails
DestroyState(s) == DestroyWith(s, NoFailure)

(* ------------------------------------------------------ discovery passes *)

\* One call of discoverPeersForTorrent in flight.  pc is the await it is
\* suspended at: "createOffer" (bloom), "offer" (pooled), "discover",
\* "answer" (bloom), "peer" (pooled), or "tail": it has returned to
\* handleTorrentAdded, whose code after the await has not run yet.  count is
\* currentPeerCount as read at the start, bf the BloomFilter object read
\* before the query (its gen; 0: none), sent the filter bytes sent with the
\* query, attempts the connection attempts initiated so far.
NewPass(T, origin, pc, count) ==
  [topic |-> T, origin |-> origin, pc |-> pc, count |-> count, bf |-> 0,
   sent |-> {}, cands |-> <<>>, cur |-> NoAd, attempts |-> 0]

\* A pass returns: its caller handleTorrentAdded resumes later ("tail");
\* a tick's or discoverPeers' pass is over.
EndPass(ps, p) ==
  IF p.origin = "first"
  THEN BagReplace(ps, p, NewPass(p.topic, "first", "tail", 0))
  ELSE BagRemove(ps, p)

\* A cap check that lets a pass through when the set is exactly full.
CapReachedStrict(count) == count > maxPeersPerTorrent

\* if (currentPeerCount >= this.options.maxPeersPerTorrent) return
CapReached(count) == count >= maxPeersPerTorrent

\* limit: this.options.maxPeersPerTorrent - currentPeerCount
Limit(count) == maxPeersPerTorrent - count

\* How the synchronous head of discoverPeersForTorrent ends: at a return
\* ("noRondevu", "skipped") or at its first await.
FirstAwait(T, count) ==
  IF variant = "pooled" /\ mgr # "ready" THEN "noRondevu"
  ELSE IF CapReached(count) THEN "skipped"
  ELSE IF variant = "bloom" THEN "createOffer"
  ELSE IF T \notin torrentOfferHandles THEN "offer"
  ELSE "discover"

\* discoverPeersForTorrent(torrent) up to its first await; count is
\* torrentPeers.get(infoHash)?.size ?? 0 as the call reads it
FirstSegment(T, origin, count) ==
  LET a == FirstAwait(T, count) IN
  /\ nPasses < MaxPasses
  /\ nPasses' = nPasses + 1
  /\ passes' = IF a \in {"noRondevu", "skipped"}
               THEN (IF origin = "first"
                     THEN BagAdd(passes, NewPass(T, "first", "tail", 0))
                     ELSE passes)
               ELSE BagAdd(passes, NewPass(T, origin, a, count))
  /\ skipped' = IF a = "skipped" THEN skipped \cup {T} ELSE skipped

\* handleTorrentAdded up to the await inside its first pass
HandleTorrentAdded(T) ==
  /\ registrations' = [registrations EXCEPT ![T] = @ + 1]
  /\ torrentPeers' = torrentPeers \cup {T}
  /\ peers' = DropSet(peers, {T})
  /\ IF variant = "bloom"
     THEN /\ torrentOffers' = torrentOffers \cup {T}
          /\ offers' = DropOffers(offers, {T})
          /\ torrentBloomFilters' =
               MapSet(torrentBloomFilters, T,
                      [gen |-> registrations[T] + 1, ids |-> {}])
     ELSE UNCHANGED << torrentOffers, offers, torrentBloomFilters >>
  /\ FirstSegment(T, "first", 0)

(* ----------------------------------------------- client and initialize() *)

\* client.add(...): the torrent joins client.torrents; 'torrent' comes later.
\* An infoHash is added to the client once.
ClientAdd(T) ==
  /\ scanQueue = {}
  /\ T \notin torrentSeen
  /\ clientTorrents' = clientTorrents \cup {T}
  /\ torrentSeen' = torrentSeen \cup {T}
  /\ UNCHANGED << variant, mgr, mgrDestroyed, scanQueue, torrentReady,
                  registrations, onceDestroyed, torrentPeers, torrentOffers,
                  torrentOfferHandles, torrentCleanupHandlers, refreshTimers,
                  torrentBloomFilters, liveTimers, passes, nPasses, peers,
                  offers, attempted, serviceHonoured, nPeers,
                  skipped, erred, cleanupRuns, threw, credential,
                  connectionListeners, connections, wrapper >>

\* the client emits 'torrent'; the listener exists once initialize() got there
ClientTorrentEvent(T) ==
  /\ scanQueue = {}
  /\ T \in clientTorrents \ torrentReady
  /\ torrentReady' = torrentReady \cup {T}
  /\ IF mgr = "ready"
     THEN HandleTorrentAdded(T)
     ELSE UNCHANGED << skipped, registrations, torrentPeers, peers, torrentOffers,
                       offers, torrentBloomFilters, passes, nPasses >>
  /\ UNCHANGED << variant, mgr, mgrDestroyed, scanQueue, clientTorrents,
                  torrentSeen, onceDestroyed, torrentOfferHandles,
                  torrentCleanupHandlers, refreshTimers, liveTimers,
                  attempted, serviceHonoured, nPeers,
                  erred, cleanupRuns, threw, credential,
                  connectionListeners, connections, wrapper >>

\* initialize(): register()/connect() resolved; the listener is attached and
\* client.torrents.forEach starts
InitializeOk ==
  /\ mgr = "init"
  /\ nPasses + Cardinality(clientTorrents) <= MaxPasses
  /\ mgr' = "ready"
  /\ credential' = "cred"
  /\ scanQueue' = clientTorrents
  /\ UNCHANGED << variant, mgrDestroyed, clientTorrents, torrentSeen,
                  torrentReady, registrations, onceDestroyed, torrentPeers,
                  torrentOffers, torrentOfferHandles, torrentCleanupHandlers,
                  refreshTimers, torrentBloomFilters, liveTimers, passes,
                  nPasses, peers, offers, attempted, serviceHonoured, nPeers,
                  skipped, erred, cleanupRuns, threw,
                  connectionListeners, connections, wrapper >>

\* initialize(): register()/connect() rejected; catch, log, return
InitializeFail ==
  /\ mgr = "init"
  /\ mgr' = "failed"
  /\ UNCHANGED << variant, mgrDestroyed, scanQueue, clientTorrents,
                  torrentSeen, torrentReady, registrations, onceDestroyed,
                  torrentPeers, torrentOffers, torrentOfferHandles,
                  torrentCleanupHandlers, refreshTimers, torrentBloomFilters,
                  liveTimers, passes, nPasses, peers, offers, attempted,
                  serviceHonoured, nPeers,
                  skipped, erred, cleanupRuns, threw, credential,
                  connectionListeners, connections, wrapper >>

\* one iteration of client.torrents.forEach(handleTorrentAdded); nothing else
\* runs until the loop is over
ScanStep ==
  /\ scanQueue # {}
  /\ LET T == CHOOSE t \in scanQueue : TRUE
     IN  /\ HandleTorrentAdded(T)
         /\ scanQueue' = scanQueue \ {T}
  /\ UNCHANGED << variant, mgr, mgrDestroyed, clientTorrents, torrentSeen,
                  torrentReady, onceDestroyed, torrentOfferHandles,
                  torrentCleanupHandlers, refreshTimers, liveTimers,
                  attempted, serviceHonoured, nPeers,
                  erred, cleanupRuns, threw, credential,
                  connectionListeners, connections, wrapper >>

\* what a pass start leaves alone
StartFrame ==
  UNCHANGED << variant, mgr, mgrDestroyed, scanQueue, clientTorrents,
               torrentSeen, torrentReady, registrations, onceDestroyed,
               torrentPeers, torrentOffers, torrentOfferHandles,
               torrentCleanupHandlers, refreshTimers, torrentBloomFilters,
               liveTimers, peers, offers, attempted, serviceHonoured, nPeers,
                  erred, cleanupRuns, threw, credential,
                  connectionListeners, connections, wrapper >>

\* the interval callback: () => this.discoverPeersForTorrent(torrent)
Tick(T) ==
  /\ scanQueue = {}
  /\ liveTimers[T] > 0
  /\ FirstSegment(T, "tick", PeerCount(T))
  /\ StartFrame

\* discoverPeers(infoHash): client.torrents.find, then the pass or nothing
DiscoverPeers(T) ==
  /\ scanQueue = {}
  /\ IF T \in clientTorrents
     THEN FirstSegment(T, "manual", PeerCount(T))
     ELSE UNCHANGED << passes, nPasses, skipped >>
  /\ StartFrame

(* ------------------------------------------- the pass after each await *)

\* A peer object that is given to the torrent as soon as its handlers are set.
NewPeerHanded(T) ==
  [topic |-> T, st |-> "connecting", tracked |-> FALSE, closes |-> 0,
   handed |-> TRUE]

\* A peer object whose handlers the manager has just set up (setupPeerHandlers
\* does not read isOfferer: offerer and answerer peers are alike); handed
\* says that torrent.addPeer has been called with it.
NewPeer(T) ==
  [topic |-> T, st |-> "connecting", tracked |-> FALSE, closes |-> 0,
   handed |-> FALSE]

\* this.rondevu.getCredentials()?.peerId / this.rondevu.getName(): the
\* identity this process has once it holds a credential
getPeerId == IF credential = "none" THEN "undefined" ELSE Self

\* A loop that does not look for the own identity.
SkipAdKeepsOwn(ad) == variant = "bloom" /\ ad.answered

\* continue: own advertisement, or (bloom) one that carries an answererPeerId
SkipAd(ad) == ad.peerId = getPeerId \/ (variant = "bloom" /\ ad.answered)

RECURSIVE SkipAds(_)
SkipAds(ads) ==
  IF ads = <<>> THEN <<>>
  ELSE IF SkipAd(Head(ads)) THEN SkipAds(Tail(ads)) ELSE ads

\* The pass asked the service with limit Limit(p.count) and filter p.sent.
Honoured(p, resp) ==
  /\ Len(resp) <= Limit(p.count)
  /\ \A k \in DOMAIN resp : resp[k].peerId \notin p.sent

\* bloomFilter?.add(remoteOffer.peerId) on the object the pass holds: seen
\* through the Map only while that object is still the entry of the topic
FilterAdd(m, p, id) ==
  IF variant = "bloom" /\ Has(m, p.topic) /\ m[p.topic].gen = p.bf
  THEN MapSet(m, p.topic, [m[p.topic] EXCEPT !.ids = @ \cup {id}])
  ELSE m

\* The for-loop over the returned offers, from rest on, up to the next await
\* (the connection attempt for the first advertisement not skipped) or to
\* the end of the list.
Loop(p, rest) ==
  LET c == SkipAds(rest) IN
  IF c = <<>>
  THEN /\ passes' = EndPass(passes, p)
       /\ UNCHANGED << torrentBloomFilters, attempted >>
  ELSE /\ passes' = BagReplace(passes, p,
                      [p EXCEPT !.pc = IF variant = "bloom" THEN "answer" ELSE "peer",
                                !.cur = Head(c), !.cands = Tail(c),
                                !.attempts = @ + 1])
       /\ torrentBloomFilters' = FilterAdd(torrentBloomFilters, p, Head(c).peerId)
       /\ attempted' = [attempted EXCEPT ![p.topic] = @ \cup {Head(c).peerId}]

\* bloom: createOffer resolved: torrentOffers.get(infoHash)?.push(offerId),
\* setupPeerHandlers(peer, torrent, true), read the filter, call findByTopic
CreateOfferResolved(p) ==
  /\ scanQueue = {}
  /\ p.pc = "createOffer"
  /\ nPeers < MaxPeerObjs
  /\ LET T == p.topic
         bf == IF Has(torrentBloomFilters, T) THEN torrentBloomFilters[T].gen ELSE 0
     IN  /\ offers' = BagAdd(offers, [topic |-> T, tracked |-> T \in torrentOffers,
                                      cancels |-> 0])
         /\ peers' = BagAdd(peers, NewPeer(T))
         /\ nPeers' = nPeers + 1
         /\ passes' = BagReplace(passes, p,
                        [p EXCEPT !.pc = "discover", !.bf = bf,
                                  !.sent = IF bf = 0 THEN {}
                                           ELSE torrentBloomFilters[T].ids])
  /\ UNCHANGED << variant, mgr, mgrDestroyed, scanQueue, clientTorrents,
                  torrentSeen, torrentReady, registrations, onceDestroyed,
                  torrentPeers, torrentOffers, torrentOfferHandles,
                  torrentCleanupHandlers, refreshTimers, torrentBloomFilters,
                  liveTimers, nPasses, attempted, serviceHonoured,
                  skipped, erred, cleanupRuns, threw, credential,
                  connectionListeners, connections, wrapper >>

\* pooled: rondevu.offer resolved: torrentOfferHandles.set(infoHash,
\* offerHandle) replaces whatever handle was the entry;
\* rondevu.on('connection:opened', ...) adds a listener that holds the
\* torrent; call discover
OfferResolved(p) ==
  /\ scanQueue = {}
  /\ p.pc = "offer"
  /\ offers' = BagAdd(DropOffers(offers, {p.topic}),
                      [topic |-> p.topic, tracked |-> TRUE, cancels |-> 0])
  /\ torrentOfferHandles' = torrentOfferHandles \cup {p.topic}
  /\ connectionListeners' = connectionListeners \cup {p.topic}
  /\ passes' = BagReplace(passes, p, [p EXCEPT !.pc = "discover"])
  /\ UNCHANGED << variant, mgr, mgrDestroyed, scanQueue, clientTorrents,
                  torrentSeen, torrentReady, registrations, onceDestroyed,
                  torrentPeers, torrentOffers, torrentCleanupHandlers,
                  refreshTimers, torrentBloomFilters, liveTimers, nPasses,
                  peers, attempted, serviceHonoured, nPeers,
                  skipped, erred, cleanupRuns, threw, credential, connections, wrapper >>

\* An outer catch that also stops the refresh timer of the topic.
PassRejectedStopsTimer(p) ==
  /\ scanQueue = {}
  /\ p.pc \in {"createOffer", "offer", "discover"}
  /\ passes' = EndPass(passes, p)
  /\ erred' = BagAdd(erred, <<p.topic, p.origin>>)
  /\ liveTimers' = [liveTimers EXCEPT ![p.topic] = 0]
  /\ refreshTimers' = refreshTimers \ {p.topic}
  /\ UNCHANGED << variant, mgr, mgrDestroyed, scanQueue, clientTorrents,
                  torrentSeen, torrentReady, registrations, onceDestroyed,
                  torrentPeers, torrentOffers, torrentOfferHandles,
                  torrentCleanupHandlers, torrentBloomFilters,
                  nPasses, peers, offers, attempted,
                  serviceHonoured, nPeers,
                  skipped, cleanupRuns, threw, credential,
                  connectionListeners, connections, wrapper >>

\* createOffer / offer / findByTopic / discover rejected: the outer catch
\* logs and the pass returns
PassRejected(p) ==
  /\ scanQueue = {}
  /\ p.pc \in {"createOffer", "offer", "discover"}
  /\ passes' = EndPass(passes, p)
  /\ erred' = BagAdd(erred, <<p.topic, p.origin>>)
  /\ UNCHANGED << variant, mgr, mgrDestroyed, scanQueue, clientTorrents,
                  torrentSeen, torrentReady, registrations, onceDestroyed,
                  torrentPeers, torrentOffers, torrentOfferHandles,
                  torrentCleanupHandlers, refreshTimers, torrentBloomFilters,
                  liveTimers, nPasses, peers, offers, attempted,
                  serviceHonoured, nPeers,
                  skipped, cleanupRuns, threw, credential,
                  connectionListeners, connections, wrapper >>

\* findByTopic / discover resolved with resp (an advertisement of this
\* process exists only once it has an identity): the loop starts
DiscoverResolved(p, resp) ==
  /\ scanQueue = {}
  /\ p.pc = "discover"
  /\ (\E k \in DOMAIN resp : resp[k].peerId = Self) => credential # "none"
  /\ serviceHonoured' = (serviceHonoured /\ Honoured(p, resp))
  /\ Loop(p, resp)
  /\ UNCHANGED << variant, mgr, mgrDestroyed, scanQueue, clientTorrents,
                  torrentSeen, torrentReady, registrations, onceDestroyed,
                  torrentPeers, torrentOffers, torrentOfferHandles,
                  torrentCleanupHandlers, refreshTimers, liveTimers, nPasses,
                  peers, offers, nPeers,
                  skipped, erred, cleanupRuns, threw, credential,
                  connectionListeners, connections, wrapper >>

\* bloom: answerPeer.answer resolved: setupPeerHandlers(answerPeer, torrent,
\* false); pooled: rondevu.peer resolved: torrentPeers.get(infoHash)?.add(peer)
\* and the peer's handlers.  Then the loop goes on.
AttemptResolved(p) ==
  /\ scanQueue = {}
  /\ p.pc \in {"answer", "peer"}
  /\ nPeers < MaxPeerObjs
  /\ peers' = BagAdd(peers, [NewPeer(p.topic) EXCEPT
                               !.tracked = (variant = "pooled"
                                            /\ p.topic \in torrentPeers)])
  /\ nPeers' = nPeers + 1
  /\ Loop(p, p.cands)
  /\ UNCHANGED << variant, mgr, mgrDestroyed, scanQueue, clientTorrents,
                  torrentSeen, torrentReady, registrations, onceDestroyed,
                  torrentPeers, torrentOffers, torrentOfferHandles,
                  torrentCleanupHandlers, refreshTimers, liveTimers, nPasses,
                  offers, serviceHonoured,
                  skipped, erred, cleanupRuns, threw, credential,
                  connectionListeners, connections, wrapper >>

\* An attempt whose rejection leaves the loop: the pass is over and the error
\* is the one of the pass.
AttemptRejectedAborts(p) ==
  /\ scanQueue = {}
  /\ p.pc \in {"answer", "peer"}
  /\ passes' = EndPass(passes, p)
  /\ erred' = BagAdd(erred, <<p.topic, p.origin>>)
  /\ UNCHANGED << variant, mgr, mgrDestroyed, scanQueue, clientTorrents,
                  torrentSeen, torrentReady, registrations, onceDestroyed,
                  torrentPeers, torrentOffers, torrentOfferHandles,
                  torrentCleanupHandlers, refreshTimers, torrentBloomFilters,
                  liveTimers, nPasses, peers, offers, attempted,
                  serviceHonoured, nPeers,
                  skipped, cleanupRuns, threw, credential,
                  connectionListeners, connections, wrapper >>

\* answer / peer rejected: the inner catch logs, the loop goes on
AttemptRejected(p) ==
  /\ scanQueue = {}
  /\ p.pc \in {"answer", "peer"}
  /\ Loop(p, p.cands)
  /\ UNCHANGED << variant, mgr, mgrDestroyed, scanQueue, clientTorrents,
                  torrentSeen, torrentReady, registrations, onceDestroyed,
                  torrentPeers, torrentOffers, torrentOfferHandles,
                  torrentCleanupHandlers, refreshTimers, liveTimers, nPasses,
                  peers, offers, serviceHonoured, nPeers,
                  skipped, erred, cleanupRuns, threw, credential,
                  connectionListeners, connections, wrapper >>

\* handleTorrentAdded after `await this.discoverPeersForTorrent(torrent)`:
\* setInterval, refreshTimers.set, torrent.once('destroyed', cleanup),
\* torrentCleanupHandlers.set
HandleTorrentAddedTail(p) ==
  /\ scanQueue = {}
  /\ p.pc = "tail"
  /\ liveTimers' = [liveTimers EXCEPT ![p.topic] = @ + 1]
  /\ refreshTimers' = refreshTimers \cup {p.topic}
  /\ onceDestroyed' = [onceDestroyed EXCEPT ![p.topic] = @ + 1]
  /\ torrentCleanupHandlers' = torrentCleanupHandlers \cup {p.topic}
  /\ passes' = BagRemove(passes, p)
  /\ UNCHANGED << variant, mgr, mgrDestroyed, scanQueue, clientTorrents,
                  torrentSeen, torrentReady, registrations, torrentPeers,
                  torrentOffers, torrentOfferHandles, torrentBloomFilters,
                  nPasses, peers, offers, attempted, serviceHonoured, nPeers,
                  skipped, erred, cleanupRuns, threw, credential,
                  connectionListeners, connections, wrapper >>

(* ------------------------------------------------------------ peer events *)

PeerEventFrame ==
  /\ UNCHANGED << variant, mgr, mgrDestroyed, scanQueue, clientTorrents,
                  torrentSeen, torrentReady, registrations, onceDestroyed,
                  torrentPeers, torrentOffers, torrentOfferHandles,
                  torrentCleanupHandlers, refreshTimers, torrentBloomFilters,
                  liveTimers, passes, nPasses, offers, attempted,
                  serviceHonoured, nPeers,
                  skipped, erred, cleanupRuns, threw, credential,
                  connectionListeners, wrapper >>

\* bloom, setupPeerHandlers: peer.on('connected'): torrentPeers.get(infoHash)
\* ?.add(peer); torrent.addPeer(peer.pc)
OnConnected(r) ==
  /\ scanQueue = {} /\ variant = "bloom"
  /\ r.st = "connecting"
  /\ peers' = BagReplace(peers, r,
                [r EXCEPT !.st = "connected",
                          !.tracked = (r.topic \in torrentPeers),
                          !.handed = TRUE])
  /\ PeerEventFrame
  /\ UNCHANGED connections

\* pooled: peer.on('open'): torrent.addPeer(wrapper); the peer set is untouched
OnOpen(r) ==
  /\ scanQueue = {} /\ variant = "pooled"
  /\ r.st = "connecting"
  /\ peers' = BagReplace(peers, r, [r EXCEPT !.st = "connected",
                                              !.handed = TRUE])
  /\ PeerEventFrame
  /\ UNCHANGED connections

\* peer.on('disconnected') (bloom) / peer.on('close') (pooled):
\* torrentPeers.get(infoHash)?.delete(peer)
OnDisconnected(r) ==
  /\ scanQueue = {}
  /\ r.st \in (IF variant = "bloom" THEN {"connected"}
               ELSE {"connecting", "connected"})
  /\ peers' = BagReplace(peers, r, [r EXCEPT !.st = "ended",
                                              !.tracked = FALSE])
  /\ PeerEventFrame
  /\ UNCHANGED connections

\* A 'failed' / 'error' handler that logs and leaves the peer in its set.
OnFailedOnlyLogs(r) ==
  /\ scanQueue = {}
  /\ r.st \in {"connecting", "connected"}
  /\ peers' = BagReplace(peers, r, [r EXCEPT !.st = "ended"])
  /\ PeerEventFrame
  /\ UNCHANGED connections

\* peer.on('failed') (bloom) / peer.on('error') (pooled): the same delete
OnFailed(r) ==
  /\ scanQueue = {}
  /\ r.st \in {"connecting", "connected"}
  /\ peers' = BagReplace(peers, r, [r EXCEPT !.st = "ended",
                                              !.tracked = FALSE])
  /\ PeerEventFrame
  /\ UNCHANGED connections

(* --------------------------------------------- inbound connections (pooled) *)

\* A remote party has answered an offer of this process that is still
\* published for T: rondevu emits 'connection:opened' and every listener
\* registered so far runs, whatever torrent its offer was for; each attaches
\* connection.on('connected', ...) for the torrent it holds (subs).
ConnectionOpened(T) ==
  /\ scanQueue = {} /\ variant = "pooled"
  /\ connectionListeners # {}
  /\ \E o \in BagToSet(offers) : o.topic = T /\ o.cancels = 0
  /\ BagCardinality(connections) < MaxConnections
  /\ connections' = BagAdd(connections,
                      [topic |-> T, st |-> "opened",
                       subs |-> connectionListeners, handed |-> {}])
  /\ PeerEventFrame
  /\ UNCHANGED peers

\* connection.on('connected'): new SimplePeerWrapper(pc, dc) and
\* torrent.addPeer(wrapper) in each listener's closure; no map is touched
ConnectionConnected(c) ==
  /\ scanQueue = {}
  /\ c.st = "opened"
  /\ connections' = BagReplace(connections, c,
                      [c EXCEPT !.st = "connected", !.handed = c.subs])
  /\ PeerEventFrame
  /\ UNCHANGED peers

(* ------------------------------------------------------------- teardown *)

\* torrent.destroy(): the torrent leaves client.torrents and emits
\* 'destroyed'; every cleanup closure registered with once() runs
TorrentDestroyed(T, f) ==
  /\ scanQueue = {}
  /\ T \in clientTorrents
  /\ clientTorrents' = clientTorrents \ {T}
  /\ SetMState(RunCleanups(MState, T, onceDestroyed[T], f))
  /\ onceDestroyed' = [onceDestroyed EXCEPT ![T] = 0]
  /\ UNCHANGED << variant, mgr, mgrDestroyed, scanQueue, torrentSeen,
                  torrentReady, registrations, passes, nPasses, attempted,
                  serviceHonoured, nPeers,
                  skipped, erred, credential,
                  connectionListeners, connections, wrapper >>

\* destroy()
Destroy(f) ==
  /\ scanQueue = {}
  /\ ~mgrDestroyed
  /\ mgrDestroyed' = TRUE
  /\ SetMState(DestroyWith(MState, f))
  /\ UNCHANGED << variant, mgr, scanQueue, clientTorrents, torrentSeen,
                  torrentReady, registrations, onceDestroyed, passes, nPasses,
                  attempted, serviceHonoured, nPeers,
                  skipped, erred, credential,
                  connectionListeners, connections, wrapper >>

(* ------------------------------------------------------------------ Next *)

Next ==
  \/ \E T \in Topics : ClientAdd(T)
  \/ \E T \in Topics : ClientTorrentEvent(T)
  \/ InitializeOk
  \/ InitializeFail
  \/ ScanStep
  \/ \E T \in Topics : Tick(T)
  \/ \E T \in Topics : DiscoverPeers(T)
  \/ \E p \in BagToSet(passes) : CreateOfferResolved(p)
  \/ \E p \in BagToSet(passes) : OfferResolved(p)
  \/ \E p \in BagToSet(passes) : PassRejected(p)
  \/ \E p \in BagToSet(passes), resp \in Responses : DiscoverResolved(p, resp)
  \/ \E p \in BagToSet(passes) : AttemptResolved(p)
  \/ \E p \in BagToSet(passes) : AttemptRejected(p)
  \/ \E p \in BagToSet(passes) : HandleTorrentAddedTail(p)
  \/ \E r \in BagToSet(peers) : OnConnected(r)
  \/ \E r \in BagToSet(peers) : OnOpen(r)
  \/ \E r \in BagToSet(peers) : OnDisconnected(r)
  \/ \E r \in BagToSet(peers) : OnFailed(r)
  \/ \E T \in Topics : ConnectionOpened(T)
  \/ \E c \in BagToSet(connections) : ConnectionConnected(c)
  \/ \E T \in Topics, f \in Failures : TorrentDestroyed(T, f)
  \/ \E f \in Failures : Destroy(f)

Spec == Init /\ [][Next]_vars

\* The same program with two torrents in the client (t1 is added first);
\* passes are started by registration and by the timers, and inbound
\* connections, which touch no map, are left out.
Next2 ==
  \/ \E T \in Topics2 : (T = "t2" => "t1" \in torrentSeen) /\ ClientAdd(T)
  \/ \E T \in Topics2 : ClientTorrentEvent(T)
  \/ InitializeOk
  \/ InitializeFail
  \/ ScanStep
  \/ \E T \in Topics2 : Tick(T)
  \/ \E p \in BagToSet(passes) : CreateOfferResolved(p)
  \/ \E p \in BagToSet(passes) : OfferResolved(p)
  \/ \E p \in BagToSet(passes) : PassRejected(p)
  \/ \E p \in BagToSet(passes), resp \in Responses2 : DiscoverResolved(p, resp)
  \/ \E p \in BagToSet(passes) : AttemptResolved(p)
  \/ \E p \in BagToSet(passes) : AttemptRejected(p)
  \/ \E p \in BagToSet(passes) : HandleTorrentAddedTail(p)
  \/ \E r \in BagToSet(peers) : OnConnected(r)
  \/ \E r \in BagToSet(peers) : OnOpen(r)
  \/ \E r \in BagToSet(peers) : OnDisconnected(r)
  \/ \E r \in BagToSet(peers) : OnFailed(r)
  \/ \E T \in Topics2, f \in Failures2 : TorrentDestroyed(T, f)
  \/ \E f \in Failures2 : Destroy(f)

Spec2 == Init /\ [][Next2]_vars

\* The runs with two torrents and inbound connections: passes are started by
\* registration only and the outbound peers emit no events.
Next3 ==
  \/ \E T \in Topics2 : (T = "t2" => "t1" \in torrentSeen) /\ ClientAdd(T)
  \/ \E T \in Topics2 : ClientTorrentEvent(T)
  \/ InitializeOk
  \/ InitializeFail
  \/ ScanStep
  \/ \E p \in BagToSet(passes) : CreateOfferResolved(p)
  \/ \E p \in BagToSet(passes) : OfferResolved(p)
  \/ \E p \in BagToSet(passes) : PassRejected(p)
  \/ \E p \in BagToSet(passes), resp \in Responses2 : DiscoverResolved(p, resp)
  \/ \E p \in BagToSet(passes) : AttemptResolved(p)
  \/ \E p \in BagToSet(passes) : AttemptRejected(p)
  \/ \E p \in BagToSet(passes) : HandleTorrentAddedTail(p)
  \/ \E T \in Topics2 : ConnectionOpened(T)
  \/ \E c \in BagToSet(connections) : ConnectionConnected(c)
  \/ \E T \in Topics2, f \in Failures2 : TorrentDestroyed(T, f)
  \/ \E f \in Failures2 : Destroy(f)

Spec3 == Init /\ [][Next3]_vars

(* ----------------------------------------------------- SimplePeerWrapper *)

\* 'connect', 'close' and 'error' emissions and destroy() calls followed in
\* one run of a wrapper
MaxEmits == 3
MaxDestroyCalls == 2

\* every variable of the manager: the wrapper's methods and handlers touch none
managerVars == << variant, mgr, mgrDestroyed, scanQueue, clientTorrents,
                  torrentSeen, torrentReady, registrations, onceDestroyed,
                  torrentPeers, torrentOffers, torrentOfferHandles,
                  torrentCleanupHandlers, refreshTimers, torrentBloomFilters,
                  liveTimers, passes, nPasses, peers, nPeers, offers,
                  attempted, serviceHonoured, skipped, erred, cleanupRuns,
                  threw, credential, connectionListeners, connections >>

\* new SimplePeerWrapper(pc, channel): connected and destroyed start false,
\* whatever the state of pc and channel; ice is pc.iceConnectionState and
\* channel the readyState of _channel ("null": no channel yet).  connects,
\* closes and errors count the events emitted, destroyCalls the calls of
\* destroy().
NewWrapper(iceState, channelState) ==
  [ice |-> iceState, channel |-> channelState,
   connected |-> FALSE, destroyed |-> FALSE,
   connects |-> 0, closes |-> 0, errors |-> 0, destroyCalls |-> 0]

WrapperInit ==
  /\ ManagerInit
  /\ \E i \in {"new", "connected"}, c \in {"null", "connecting", "open"} :
       wrapper = NewWrapper(i, c)

\* The iceConnectionState changes an RTCPeerConnection can make; a closed
\* connection makes none.
IceNext(i) ==
  CASE i = "new"          -> {"checking"}
    [] i = "checking"     -> {"connected", "failed"}
    [] i = "connected"    -> {"completed", "disconnected"}
    [] i = "completed"    -> {"disconnected"}
    [] i = "disconnected" -> {"connected", "failed"}
    [] OTHER              -> {}

\* this._pc.oniceconnectionstatechange: the connection has moved to state s
OnIceConnectionStateChange(s) ==
  /\ s \in IceNext(wrapper.ice)
  /\ wrapper.connects < MaxEmits /\ wrapper.closes < MaxEmits
  /\ wrapper' =
       IF s \in {"connected", "completed"}
       THEN [wrapper EXCEPT !.ice = s, !.connected = TRUE, !.connects = @ + 1]
       ELSE IF s \in {"disconnected", "failed", "closed"}
       THEN [wrapper EXCEPT !.ice = s, !.connected = FALSE, !.closes = @ + 1]
       ELSE [wrapper EXCEPT !.ice = s]
  /\ UNCHANGED managerVars

\* this._pc.ondatachannel: setupDataChannel(event.channel); the remote side
\* has created the channel of a connection that is not closed
OnDataChannel ==
  /\ wrapper.channel = "null"
  /\ wrapper.ice \notin {"none", "closed"}
  /\ wrapper' = [wrapper EXCEPT !.channel = "connecting"]
  /\ UNCHANGED managerVars

\* channel.onopen
ChannelOnOpen ==
  /\ wrapper.channel = "connecting"
  /\ wrapper.connects < MaxEmits
  /\ wrapper' = [wrapper EXCEPT !.channel = "open", !.connected = TRUE,
                                !.connects = @ + 1]
  /\ UNCHANGED managerVars

\* channel.onclose: emits 'close'; connected is left as it is
ChannelOnClose ==
  /\ wrapper.channel \in {"connecting", "open", "closing"}
  /\ wrapper.closes < MaxEmits
  /\ wrapper' = [wrapper EXCEPT !.channel = "closed", !.closes = @ + 1]
  /\ UNCHANGED managerVars

\* channel.onerror: emits 'error'
ChannelOnError ==
  /\ wrapper.channel \in {"connecting", "open"}
  /\ wrapper.errors < MaxEmits
  /\ wrapper' = [wrapper EXCEPT !.errors = @ + 1]
  /\ UNCHANGED managerVars

\* what close() leaves of a channel state / of a connection state
ClosedChannel(c) == IF c \in {"connecting", "open"} THEN "closing" ELSE c

\* The fields destroy() writes on its first call.  chThrows / pcThrows: the
\* close() of the channel / of the connection throws (both are caught and
\* dropped) and has closed nothing; a connection that closes closes its
\* channel.
Destroyed(w, err, chThrows, pcThrows) ==
  [w EXCEPT !.destroyed = TRUE,
            !.connected = FALSE,
            !.channel = IF (chThrows /\ pcThrows) THEN @ ELSE ClosedChannel(@),
            !.ice = IF pcThrows THEN @ ELSE "closed",
            !.errors = IF err THEN @ + 1 ELSE @,
            !.closes = @ + 1]

\* destroy(err?)
WrapperDestroy(err, chThrows, pcThrows) ==
  /\ wrapper.ice # "none"
  /\ wrapper.destroyCalls < MaxDestroyCalls
  /\ wrapper.destroyed
       \/ (wrapper.closes < MaxEmits /\ (err => wrapper.errors < MaxEmits))
  /\ wrapper' =
       IF wrapper.destroyed
       THEN [wrapper EXCEPT !.destroyCalls = @ + 1]
       ELSE [Destroyed(wrapper, err, chThrows, pcThrows)
               EXCEPT !.destroyCalls = @ + 1]
  /\ UNCHANGED managerVars

WrapperNext ==
  \/ \E s \in {"checking", "connected", "completed", "disconnected", "failed"} :
       OnIceConnectionStateChange(s)
  \/ OnDataChannel
  \/ ChannelOnOpen
  \/ ChannelOnClose
  \/ ChannelOnError
  \/ \E err, chThrows, pcThrows \in BOOLEAN : WrapperDestroy(err, chThrows, pcThrows)

SpecW == WrapperInit /\ [][WrapperNext]_vars

(* ---------------------------------------------------------- properties *)

\* T has been added to the client and has been destroyed since
Removed(T) == T \in torrentSeen \ clientTorrents

\* handleTorrentAdded has run for T and T has not been destroyed
Registered(T) == T \in clientTorrents /\ registrations[T] > 0

\* how many peer objects are members of a peer set / have been closed
TrackedPeers(ps) == BagCardinality([r \in {x \in BagToSet(ps) : x.tracked} |-> ps[r]])
ClosedPeers(ps) == BagCardinality([r \in {x \in BagToSet(ps) : x.st = "closed"} |-> ps[r]])

\* how many offers are entries of an offer map / have been cancelled
TrackedOffers(os) == BagCardinality([o \in {x \in BagToSet(os) : x.tracked} |-> os[o]])
CancelledOffers(os) == BagCardinality([o \in {x \in BagToSet(os) : x.cancels > 0} |-> os[o]])

\* the pass records this step has put in flight or moved on
NewRecords == {p \in BagToSet(passes') : CopiesIn(p, passes') > CopiesIn(p, passes)}

\* C1: for every torrent and in every reachable state the peer set holds at
\* most maxPeersPerTorrent peers (the signaling service having respected
\* limit and filter in every query so far).
C1_PeerSetWithinCap ==
  serviceHonoured => \A T \in Topics : PeerCount(T) <= maxPeersPerTorrent

\* C2: a torrent that is registered has at most one live refresh timer, and
\* a torrent that is not registered (never added, or destroyed) has none.
C2_OneTimerPerResource ==
  \A T \in Topics : liveTimers[T] <= (IF Registered(T) THEN 1 ELSE 0)

\* C3: once torrent T has been removed, no later step inserts a peer into
\* the peer set of T: the result of an attempt that completes after the
\* removal is discarded.
C3_DiscardAfterRemoval ==
  [][\A T \in Topics :
       Removed(T) => SizeOf(torrentPeers', peers', T) <= SizeOf(torrentPeers, peers, T)]_vars

\* C4: once torrent T has been removed, none of the per-torrent maps (peer
\* set, offer ids, offer handle, bloom filter, refresh timer, cleanup
\* handler) holds an entry for T.
C4_NoEntryAfterRemoval ==
  \A T \in Topics :
    Removed(T) =>
      /\ T \notin torrentPeers
      /\ T \notin torrentOffers
      /\ T \notin torrentOfferHandles
      /\ ~Has(torrentBloomFilters, T)
      /\ T \notin refreshTimers
      /\ T \notin torrentCleanupHandlers

\* C5: running the cleanup of a torrent twice in a row has the effects of
\* running it once: the second run changes nothing, whether the first run
\* was the closure alone or destroy() (the handlers, then the maps
\* cleared); and over a whole run no peer is closed twice, no offer is
\* cancelled twice and no timer is cleared that was not live.
C5_TeardownIdempotent ==
  /\ \A T \in Topics :
       /\ Cleanup(Cleanup(MState, T), T) = Cleanup(MState, T)
       /\ Cleanup(DestroyState(MState), T) = DestroyState(MState)
       /\ liveTimers[T] >= 0
  /\ \A r \in BagToSet(peers) : r.closes <= 1
  /\ \A o \in BagToSet(offers) : o.cancels <= 1

\* the closure of T has run twice, first from destroy() and then from the
\* torrent's 'destroyed', and a peer and an offer of T were torn down
C5_Witness ==
  \E T \in Topics :
    /\ mgrDestroyed /\ Removed(T) /\ cleanupRuns[T] = 2
    /\ \E r \in BagToSet(peers) : r.topic = T /\ r.closes = 1
    /\ \E o \in BagToSet(offers) : o.topic = T /\ o.cancels = 1
    /\ liveTimers[T] = 0

\* C6: an identity that has been handed to answer() / peer() for a torrent
\* is not handed to it again by a later step (the signaling service having
\* respected limit and filter in every query so far, this one included).
C6_NoRepeatedAttempt ==
  [][serviceHonoured' =>
       \A p \in NewRecords :
         p.pc \in {"answer", "peer"} => p.cur.peerId \notin attempted[p.topic]]_vars

\* C7: a discovery pass initiates at most limit = maxPeersPerTorrent -
\* currentPeerCount connection attempts, whatever the service returns.
C7_AttemptsWithinRemaining ==
  \A p \in BagToSet(passes) : p.attempts <= Limit(p.count)

\* C8: a tick or discoverPeers() pass that starts while the peer set of its
\* torrent is at or above the cap returns at once: no pass for the torrent
\* gets in flight (so no offer is created, no query sent, no attempt made)
\* and offers, peers, attempted identities and the peer count stay as they
\* were.
C8_SkipAtCap ==
  [][\A T \in Topics :
       (/\ nPasses' = nPasses + 1
        /\ registrations' = registrations
        /\ PeerCount(T) >= maxPeersPerTorrent)
       => /\ \A p \in NewRecords : p.topic # T
          /\ offers' = offers
          /\ peers' = peers
          /\ attempted' = attempted
          /\ torrentOffers' = torrentOffers
          /\ torrentOfferHandles' = torrentOfferHandles
          /\ SizeOf(torrentPeers', peers', T) = PeerCount(T)]_vars

\* a pass of T has returned at the cap check and the set of T is full
C8_Witness ==
  \E T \in Topics : T \in skipped /\ PeerCount(T) = maxPeersPerTorrent

\* C9: a step in which a pass ends in the outer catch (offer creation or
\* query rejected) ends that pass only: the torrent keeps its entries, its
\* refresh timer stays live and set, its cleanup stays registered, every
\* other pass in flight is untouched and no peer or offer changes.
C9_ErrorAbandonsOnlyThePass ==
  [][BagCardinality(erred') > BagCardinality(erred) =>
       /\ liveTimers' = liveTimers
       /\ refreshTimers' = refreshTimers
       /\ torrentPeers' = torrentPeers
       /\ torrentCleanupHandlers' = torrentCleanupHandlers
       /\ onceDestroyed' = onceDestroyed
       /\ clientTorrents' = clientTorrents
       /\ peers' = peers
       /\ offers' = offers
       /\ \E p \in BagToSet(passes) :
            /\ p.pc \in {"createOffer", "offer", "discover"}
            /\ passes' = EndPass(passes, p)]_vars

\* a scheduled pass of T has ended in the outer catch and T is still
\* registered with its timer live
C9_Witness ==
  \E T \in Topics :
    /\ BagIn(<<T, "tick">>, erred)
    /\ Registered(T)
    /\ liveTimers[T] = 1 /\ T \in refreshTimers
    /\ T \in torrentPeers /\ T \in torrentCleanupHandlers

\* C10: when destroy() returns, no timer is live, every peer that was a
\* member of a peer set has been closed, every tracked offer has been
\* cancelled and every map is empty.
C10_DestroyTearsDownAll ==
  [][(~mgrDestroyed /\ mgrDestroyed') =>
       /\ \A T \in Topics : liveTimers'[T] = 0
       /\ ClosedPeers(peers') = ClosedPeers(peers) + TrackedPeers(peers)
       /\ CancelledOffers(offers') = CancelledOffers(offers) + TrackedOffers(offers)
       /\ torrentPeers' = {} /\ torrentOffers' = {} /\ torrentOfferHandles' = {}
       /\ refreshTimers' = {} /\ torrentCleanupHandlers' = {}
       /\ torrentBloomFilters' = EmptyMap]_vars

\* C11: a teardown call in which a peer's close() or an offer's cancel
\* fails still completes: no exception leaves destroy() or the 'destroyed'
\* emit, all other members of the peer set of the torrent are closed, and
\* the torrent's entries are gone from every map.
C11_CleanupFailureContained ==
  [][\A T \in Topics :
       cleanupRuns'[T] > cleanupRuns[T] =>
         /\ threw' => threw
         /\ ClosedPeers(peers') + 1 >= ClosedPeers(peers) + PeerCount(T)
         /\ T \notin torrentPeers'
         /\ T \notin torrentOffers'
         /\ T \notin torrentOfferHandles'
         /\ ~Has(torrentBloomFilters', T)
         /\ T \notin refreshTimers'
         /\ T \notin torrentCleanupHandlers']_vars

\* C12: discoverPeers(id) starts a pass only for a torrent the manager
\* tracks at that moment (it has a peer-set entry, the manager is
\* initialised and not destroyed); for any other id nothing gets in flight.
C12_DiscoverPeersOnlyTracked ==
  [][\A p \in NewRecords :
       (p.origin = "manual" /\ nPasses' = nPasses + 1)
         => (p.topic \in torrentPeers /\ mgr = "ready" /\ ~mgrDestroyed)]_vars

\* C13: once register() / connect() has failed the manager is inert: no
\* step registers a torrent, creates a timer or puts a discovery pass in
\* flight, and the maps stay as they are.
C13_InertAfterFailedInit ==
  [][mgr = "failed" =>
       /\ registrations' = registrations
       /\ liveTimers' = liveTimers
       /\ torrentPeers' = torrentPeers
       /\ nPasses' > nPasses => NewRecords = {}]_vars

\* C14: handleTorrentAdded for a torrent that is already tracked (it was seen
\* by the scan of client.torrents and its 'torrent' event comes later) is a
\* no-op: the peer set, the offers and the filter are kept and no further
\* first pass is started.
C14_RegisterTrackedIsNoOp ==
  [][\A T \in Topics :
       (registrations'[T] > registrations[T] /\ T \in torrentPeers)
         => /\ peers' = peers
            /\ offers' = offers
            /\ torrentBloomFilters' = torrentBloomFilters
            /\ passes' = passes]_vars

\* C15: a connection attempt of a pass that fails (the attempt is over and
\* no peer object came of it) does not abort the pass and is not raised: no
\* error of the pass is recorded, nothing is thrown, the timers stay, and the
\* pass goes on to the next advertisement that is not skipped, or returns
\* normally when there is none.
C15_FailedAttemptKeepsPass ==
  [][\A p \in BagToSet(passes) :
       (/\ p.pc \in {"answer", "peer"}
        /\ CopiesIn(p, passes') < CopiesIn(p, passes)
        /\ nPeers' = nPeers)
         => /\ erred' = erred
            /\ threw' = threw
            /\ liveTimers' = liveTimers
            /\ refreshTimers' = refreshTimers
            /\ IF SkipAds(p.cands) = <<>>
               THEN passes' = EndPass(passes, p)
               ELSE \E q \in NewRecords :
                      /\ q.topic = p.topic
                      /\ q.pc = p.pc
                      /\ q.cur = Head(SkipAds(p.cands))
                      /\ q.attempts = p.attempts + 1]_vars

\* a pass is at its second attempt and no attempt has produced a peer
\* object: the first attempt of this pass was rejected
C15_Witness ==
  \E p \in BagToSet(passes) :
    /\ p.pc \in {"answer", "peer"}
    /\ p.attempts = 2
    /\ nPeers = (IF variant = "bloom" THEN 1 ELSE 0)

\* C16: in every state getStats() lists exactly the torrents that are
\* currently registered, each with the size of its peer set, and
\* activeTorrents is the number of torrents it lists.
C16_StatsMatchRegistry ==
  /\ DOMAIN getStats = {T \in Topics : Registered(T)}
  /\ \A T \in DOMAIN getStats : getStats[T] = PeerCount(T)
  /\ activeTorrents = Cardinality(DOMAIN getStats)

\* C17: once initialize() has completed, what getCredential() /
\* getCredentials() returns is changed by no step: no torrent addition,
\* discovery pass, peer event, removal or destroy().
C17_CredentialStable ==
  [][mgr = "ready" => getCredential' = getCredential]_vars

\* after initialization a torrent was registered, had a pass, and was removed
\* with its cleanup run; the credential is the one of initialization
C17_Witness ==
  /\ mgr = "ready"
  /\ getCredential = "cred"
  /\ \E T \in Topics :
       /\ Removed(T)
       /\ registrations[T] > 0
       /\ cleanupRuns[T] > 0
       /\ T \notin torrentPeers

\* C18: the cleanup closure of a registered torrent performs its steps in
\* the order: cancel the refresh timer, close the tracked peers and delete
\* the peer set, cancel the tracked offers, release the filter, unregister
\* the cleanup handler.
C18_TeardownOrder ==
  LET order == <<"timer", "peers", "offers", "filter", "handler">>
      pos(x) == CHOOSE k \in DOMAIN order : order[k] = x
  IN  \A T \in torrentCleanupHandlers :
        LET a == ActingSteps(MState, T, CleanupSteps)
        IN  \A i, j \in DOMAIN a : i < j => pos(a[i]) < pos(a[j])

\* C19: once the cleanup closure of a torrent has run (its timer step is
\* done), no new discovery pass for that torrent starts: not from a tick,
\* not from a timer created later, not from discoverPeers.
C19_NoPassAfterTeardown ==
  [][\A p \in NewRecords :
       (nPasses' = nPasses + 1 /\ p.pc # "tail")
         => cleanupRuns[p.topic] = 0]_vars

\* C20: the cleanup closure of a torrent is executed at most once: destroy()
\* and the torrent's 'destroyed' event never both run it.
C20_CleanupAtMostOnce ==
  \A T \in Topics : cleanupRuns[T] <= 1

\* C21: a pass publishes a fresh offer for a torrent only when no offer is
\* tracked for it: a step that adds an offer of topic T is taken only in a
\* state where T has no tracked offer, so the tracked offers do not grow with
\* the passes.
C21_FreshOfferOnlyWhenNoneTracked ==
  [][\A T \in Topics :
       LET Of(os) == BagCardinality([o \in {x \in BagToSet(os) : x.topic = T} |-> os[o]])
       IN  Of(offers') > Of(offers)
             => \A o \in BagToSet(offers) : ~(o.topic = T /\ o.tracked)]_vars

\* C22: an inbound connection (a remote party answered our offer for T) is
\* handled like an outbound one: when it becomes connected while T has a
\* peer set, it joins that set and counts toward the cap.
C22_InboundJoinsPeerSet ==
  [][\A c \in BagToSet(connections') :
       (/\ c.st = "connected"
        /\ CopiesIn(c, connections') > CopiesIn(c, connections)
        /\ c.topic \in torrentPeers)
         => SizeOf(torrentPeers', peers', c.topic) = PeerCount(c.topic) + 1]_vars

\* C23: a peer is handed to the torrent (torrent.addPeer) only by the step
\* that takes it from connecting to connected on its transport signal;
\* no peer that is still connecting, and none that was closed or has ended,
\* is handed over.  The same for an inbound connection of the pooled variant.
C23_HandedOnlyWhenConnected ==
  [][/\ \A q \in BagToSet(peers') : q.handed => q.st # "connecting"
     /\ LET Handed(ps) ==
              BagCardinality([r \in {x \in BagToSet(ps) : x.handed} |-> ps[r]])
        IN  Handed(peers') > Handed(peers)
          => \E r \in BagToSet(peers), q \in BagToSet(peers') :
               /\ r.st = "connecting" /\ ~r.handed
               /\ q.st = "connected" /\ q.handed /\ q.topic = r.topic
               /\ peers' (-) SetToBag({q}) = peers (-) SetToBag({r})
     /\ \A c \in BagToSet(connections') :
          c.handed # {} => c.st = "connected"]_vars

\* a peer has become connected and has been handed to its torrent
C23_Witness ==
  \E r \in BagToSet(peers) : r.handed /\ r.st = "connected"

\* C24: Closed and Failed are terminal: a peer that has emitted its
\* disconnected / close or failed / error event is a member of no peer set,
\* in the state after the event and in every later state.
C24_EndedPeerNeverTracked ==
  \A r \in BagToSet(peers) : r.st = "ended" => ~r.tracked

\* a peer of a torrent registered once and never torn down was connected and
\* handed over, and has ended since; the peer set of its torrent still exists
C24_Witness ==
  \E r \in BagToSet(peers) :
    /\ r.st = "ended" /\ r.handed
    /\ r.topic \in torrentPeers
    /\ registrations[r.topic] = 1 /\ cleanupRuns[r.topic] = 0

\* C25: every member of a peer set is a connected peer that has been handed
\* to its torrent, so peerCount counts connected peers only.
C25_MembersAreConnected ==
  \A r \in BagToSet(peers) : r.tracked => (r.st = "connected" /\ r.handed)

\* C26: whatever list the signaling service returns, a pass never starts a
\* connection attempt (answer() / peer()) for an advertisement whose origin
\* is this process's own identity.
C26_NoAttemptToSelf ==
  [][\A q \in NewRecords :
       q.pc \in {"answer", "peer"} => q.cur.peerId # Self]_vars

\* a pass was given the list that starts with this process's own
\* advertisement and is attempting the advertisement after it
C26_Witness ==
  \E p \in BagToSet(passes) :
    p.pc = "peer" /\ p.cur.peerId = "p3" /\ p.attempts = 1

\* C27: the step that registers a torrent starts its first pass, and from
\* then on, as long as the torrent is registered and tracked, a refresh
\* timer of the torrent is live whatever the first pass is doing, so that
\* further passes keep being started.
C27_RegisteredHasTimer ==
  [][\A T \in Topics :
       /\ registrations'[T] > registrations[T] => nPasses' = nPasses + 1
       /\ (T \in clientTorrents' /\ registrations'[T] > 0 /\ T \in torrentPeers')
            => liveTimers'[T] > 0]_vars

\* C28: torrents are independent: a step that registers T1, starts or
\* continues a discovery pass for T1, delivers an event of one of T1's peers
\* or tears T1 down leaves the peer set, the offers, the filter, the timers
\* and the cleanup handler of every other torrent T2 as they were.
C28_TorrentsIndependent ==
  [][\A T1 \in Topics2 :
       LET Step ==
             \/ ClientTorrentEvent(T1)
             \/ ScanStep /\ registrations'[T1] > registrations[T1]
             \/ Tick(T1)
             \/ \E p \in BagToSet(passes) :
                  /\ p.topic = T1
                  /\ \/ CreateOfferResolved(p) \/ OfferResolved(p)
                     \/ PassRejected(p)
                     \/ \E resp \in Responses2 : DiscoverResolved(p, resp)
                     \/ AttemptResolved(p) \/ AttemptRejected(p)
                     \/ HandleTorrentAddedTail(p)
             \/ \E r \in BagToSet(peers) :
                  /\ r.topic = T1
                  /\ OnConnected(r) \/ OnOpen(r) \/ OnDisconnected(r) \/ OnFailed(r)
             \/ \E f \in Failures2 : TorrentDestroyed(T1, f)
           Of(b, T) == [x \in {y \in BagToSet(b) : y.topic = T} |-> b[x]]
       IN  Step => \A T2 \in Topics2 \ {T1} :
                     /\ (T2 \in torrentPeers') = (T2 \in torrentPeers)
                     /\ Of(peers', T2) = Of(peers, T2)
                     /\ (T2 \in torrentOffers') = (T2 \in torrentOffers)
                     /\ (T2 \in torrentOfferHandles') = (T2 \in torrentOfferHandles)
                     /\ Of(offers', T2) = Of(offers, T2)
                     /\ Has(torrentBloomFilters', T2) = Has(torrentBloomFilters, T2)
                     /\ Has(torrentBloomFilters, T2)
                          => torrentBloomFilters'[T2] = torrentBloomFilters[T2]
                     /\ (T2 \in refreshTimers') = (T2 \in refreshTimers)
                     /\ liveTimers'[T2] = liveTimers[T2]
                     /\ (T2 \in torrentCleanupHandlers') = (T2 \in torrentCleanupHandlers)
                     /\ onceDestroyed'[T2] = onceDestroyed[T2]]_vars

\* both torrents are registered with timer and cleanup handler, t2 has a
\* peer in its set, and t1 has been torn down
C28_Witness ==
  /\ cleanupRuns["t1"] > 0 /\ "t1" \notin torrentPeers
  /\ "t2" \in torrentPeers /\ "t2" \in torrentCleanupHandlers
  /\ liveTimers["t2"] = 1
  /\ \E r \in BagToSet(peers) : r.topic = "t2" /\ r.tracked

\* C29: once destroy() has returned the manager stays torn down: in every
\* later state no refresh timer is live and no per-torrent map has an entry,
\* whatever call was suspended when destroy() ran and whatever the client
\* emits afterwards.
C29_StaysDestroyed ==
  (mgrDestroyed /\ ~threw)
    => /\ \A T \in Topics : liveTimers[T] = 0
       /\ refreshTimers = {}
       /\ torrentPeers = {}
       /\ torrentOffers = {}
       /\ torrentOfferHandles = {}
       /\ torrentBloomFilters = EmptyMap
       /\ torrentCleanupHandlers = {}

\* C30: no offer is leaked: every offer this manager has published and not
\* cancelled is an entry of the tracked offers of its torrent, so that none
\* is left once the torrent's teardown has run and its passes are over.
C30_NoOfferLeaked ==
  /\ \A o \in BagToSet(offers) : o.cancels = 0 => o.tracked
  /\ \A T \in Topics :
       (cleanupRuns[T] > 0 /\ \A p \in BagToSet(passes) : p.topic # T)
         => \A o \in BagToSet(offers) : o.topic = T => o.cancels > 0

\* C31: no connection is leaked: once the cleanup closure of torrent T has
\* run, no step adds to the peer objects of T that are connected with
\* close() never called on them: a connection that opens after the teardown
\* is closed, not left open.
C31_NoConnectionLeaked ==
  [][\A T \in Topics :
       LET Open(ps) == BagCardinality([r \in {x \in BagToSet(ps) :
                          x.topic = T /\ x.st = "connected" /\ x.closes = 0} |-> ps[r]])
       IN  Open(peers') > Open(peers) => cleanupRuns[T] = 0]_vars

\* C32: once the cleanup closure of torrent T has run, no step hands a peer
\* to T's torrent (torrent.addPeer): not an outbound peer that connects
\* later, not an inbound connection that becomes connected later.
C32_NoAddPeerAfterTeardown ==
  [][\A T \in Topics :
       LET HandedPeers(ps) == BagCardinality([r \in {x \in BagToSet(ps) :
                                 x.topic = T /\ x.handed} |-> ps[r]])
           HandedConns(cs) == BagCardinality([c \in {x \in BagToSet(cs) :
                                 T \in x.handed} |-> cs[c]])
       IN  (\/ HandedPeers(peers') > HandedPeers(peers)
            \/ HandedConns(connections') > HandedConns(connections))
             => cleanupRuns[T] = 0]_vars

\* C33: an inbound connection opened on an offer published for torrent T is
\* handed, once it is connected, to T's torrent and to no other torrent.
C33_InboundHandedToItsTorrentOnly ==
  \A c \in BagToSet(connections) :
    c.st = "connected" => c.handed = {c.topic}

\* C34: at most one discovery pass per torrent is in flight: no state holds
\* two discoverPeersForTorrent calls for the same torrent that are both
\* suspended at an await.
C34_OnePassInFlight ==
  \A T \in Topics :
    BagCardinality([p \in {x \in BagToSet(passes) :
                      x.topic = T /\ x.pc # "tail"} |-> passes[p]]) <= 1

\* C35: destroy() of a SimplePeerWrapper is idempotent and final: the first
\* call sets destroyed and clears connected and emits 'close' once; a later
\* call changes no field and emits nothing; and once destroyed, no step sets
\* connected back to true.
C35_DestroyIdempotentAndFinal ==
  [][/\ wrapper'.destroyCalls > wrapper.destroyCalls =>
          IF wrapper.destroyed
          THEN wrapper' = [wrapper EXCEPT !.destroyCalls = @ + 1]
          ELSE /\ wrapper'.destroyed /\ ~wrapper'.connected
               /\ wrapper'.closes = wrapper.closes + 1
     /\ wrapper.destroyed => ~wrapper'.connected]_<<wrapper>>

\* C36: a SimplePeerWrapper emits 'connect' at most once, whatever the order
\* of ICE state changes and data-channel events, and never after it has
\* emitted 'close'.
C36_ConnectAtMostOnce ==
  [][wrapper'.connects > wrapper.connects
       => (wrapper.connects = 0 /\ wrapper.closes = 0)]_<<wrapper>>

====
